---- MODULE Spec2Model ----
(***************************************************************************)
(* A model of the monitor-and-orchestration core of agentic-usage-monitor: *)
(* the credential store adapter (oauth-credentials.ts, two revisions),     *)
(* the write-back of refreshed credentials (data/index.ts) and the usage   *)
(* API client with its retry-once-on-401 policy (data/oauth-api.ts).       *)
(***************************************************************************)
EXTENDS Integers, Sequences, FiniteSets, TLC

(***************************************************************************)
(* JavaScript values.  A value that the code converts (a date string, an   *)
(* epoch-ms number) is a tagged record so that a conversion is computed    *)
(* and never assumed to be the identity.                                   *)
(*   k = "undefined" | "null" | "NaN" | "number" | "string" | "badstring"  *)
(*   "string"    a date string naming the instant ms; canon says whether   *)
(*               it is in the format Date.prototype.toISOString produces   *)
(*   "badstring" a string that Date cannot parse                           *)
(***************************************************************************)
JUndef == [k |-> "undefined", ms |-> 0, canon |-> FALSE]
JNull == [k |-> "null", ms |-> 0, canon |-> FALSE]
JNaN == [k |-> "NaN", ms |-> 0, canon |-> FALSE]
JBadStr == [k |-> "badstring", ms |-> 0, canon |-> FALSE]
JNum(n) == [k |-> "number", ms |-> n, canon |-> FALSE]
JIso(n, c) == [k |-> "string", ms |-> n, canon |-> c]

\* typeof v
TypeOf(v) ==
  CASE v.k \in {"string", "badstring"} -> "string"
    [] v.k \in {"number", "NaN"} -> "number"
    [] v.k = "null" -> "object"
    [] OTHER -> "undefined"

\* the truthiness test of `v ? a : b`
Truthy(v) ==
  CASE v.k \in {"string", "badstring"} -> TRUE
    [] v.k = "number" -> v.ms # 0
    [] OTHER -> FALSE

\* new Date(v).getTime()
DateGetTime(v) ==
  CASE v.k = "string" -> JNum(v.ms)
    [] v.k = "number" -> JNum(v.ms)
    [] v.k = "null" -> JNum(0)
    [] OTHER -> JNaN

\* new Date(n).toISOString() for a finite number n
DateToISOString(v) == JIso(v.ms, TRUE)

\* what JSON.parse(JSON.stringify(obj)) gives for a property value of obj:
\* an undefined property is dropped, NaN is written as null
JsonValue(v) ==
  CASE v.k = "undefined" -> JUndef
    [] v.k = "NaN" -> JNull
    [] OTHER -> v

\* string-valued properties: Undef stands for an absent property
Undef == "<undefined>"
Falsy(s) == s \in {Undef, ""}

\* the tokens of the model; the first two carry the OAuth prefix
TokenA == "sk-ant-oat-A"
TokenB == "sk-ant-oat-B"
MockToken == "mock-access-token"
\* accessToken.startsWith("sk-ant-oat")
StartsWithOAuthPrefix(s) == s \in {TokenA, TokenB}

\* scopes: string[] | undefined
NoScopes == [def |-> FALSE, items |-> <<>>]
SomeScopes == [def |-> TRUE, items |-> <<"user:inference">>]

(***************************************************************************)
(* Credential records and load results.                                    *)
(***************************************************************************)
Cred(a, r, e, s) == [accessToken |-> a, refreshToken |-> r, expiresAt |-> e, scopes |-> s]
NoCred == Cred(Undef, Undef, JUndef, NoScopes)

Ok(c, src) == [success |-> TRUE, credentials |-> c, source |-> src, error |-> ""]
Err(msg) == [success |-> FALSE, credentials |-> NoCred, source |-> "none", error |-> msg]

(***************************************************************************)
(* Files.  kind = "absent" (no such file), "corrupt" (not JSON), "null"    *)
(* (JSON that is not an object: property access on it throws) or          *)
(* "object".  other is the content of the file's other top-level keys      *)
(* ("" when there are none), sibling the content of the extra fields       *)
(* inside the credential entry itself.                                     *)
(***************************************************************************)
NoClaudeEntry == [present |-> FALSE, accessToken |-> Undef, refreshToken |-> Undef,
                  expiresAt |-> JUndef, scopes |-> NoScopes, sibling |-> ""]
ClaudeEntry(a, r, e, s, x) == [present |-> TRUE, accessToken |-> a, refreshToken |-> r,
                               expiresAt |-> e, scopes |-> s, sibling |-> x]
ClaudeFileOf(kd, o, en) == [kind |-> kd, other |-> o, entry |-> en]
ClaudeAbsent == ClaudeFileOf("absent", "", NoClaudeEntry)

NoOpenEntry == [present |-> FALSE, type |-> Undef, access |-> Undef, refresh |-> Undef,
                expires |-> JUndef, sibling |-> ""]
OpenEntry(t, a, r, e, x) == [present |-> TRUE, type |-> t, access |-> a, refresh |-> r,
                             expires |-> e, sibling |-> x]
OpenFileOf(kd, o, en) == [kind |-> kd, other |-> o, entry |-> en]
OpenAbsent == OpenFileOf("absent", "", NoOpenEntry)

TestFileOf(kd, o, a, r, e) == [kind |-> kd, other |-> o, access_token |-> a,
                               refresh_token |-> r, expires_at |-> e]
TestAbsent == TestFileOf("absent", "", Undef, Undef, JUndef)

\* the macOS keychain item: "unsupported" (not darwin), "missing" (the
\* security command fails), or a payload shaped like the Claude Code file
KeychainOf(kd, en) == [kind |-> kd, other |-> "", entry |-> en]
KeychainUnsupported == KeychainOf("unsupported", NoClaudeEntry)

(***************************************************************************)
(* oauth-credentials.ts, the revision with the keychain (priority:         *)
(* Claude Code keychain, Claude Code file, OpenCode).                      *)
(***************************************************************************)
loadFromOpenCode(f) ==
  IF f.kind = "absent" THEN Err("opencode-not-found")
  ELSE IF f.kind \in {"corrupt", "null"} THEN Err("Failed to parse OpenCode auth")
  ELSE IF ~f.entry.present \/ Falsy(f.entry.access)
    THEN Err("No Anthropic OAuth in OpenCode auth file.")
  ELSE IF ~StartsWithOAuthPrefix(f.entry.access)
    THEN Err("Invalid OAuth token format in OpenCode.")
  ELSE Ok(Cred(f.entry.access, f.entry.refresh,
               IF Truthy(f.entry.expires) THEN DateToISOString(f.entry.expires) ELSE JUndef,
               NoScopes), "opencode")

\* mutant: an entry that carries an expiry instant is refused
parseClaudeCodeCredentialsUnexpired(en) ==
  IF ~en.present \/ Falsy(en.accessToken)
    THEN Err("No OAuth credentials in Claude Code data.")
  ELSE IF ~StartsWithOAuthPrefix(en.accessToken)
    THEN Err("Invalid OAuth token format in Claude Code.")
  ELSE IF en.expiresAt.k \in {"number", "string"}
    THEN Err("OAuth token has expired.")
  ELSE Ok(Cred(en.accessToken, en.refreshToken, JUndef, en.scopes), "claude-code")

parseClaudeCodeCredentials(en) ==
  IF ~en.present \/ Falsy(en.accessToken)
    THEN Err("No OAuth credentials in Claude Code data.")
  ELSE IF ~StartsWithOAuthPrefix(en.accessToken)
    THEN Err("Invalid OAuth token format in Claude Code.")
  ELSE Ok(Cred(en.accessToken, en.refreshToken,
               IF TypeOf(en.expiresAt) = "number" THEN DateToISOString(en.expiresAt)
               ELSE IF TypeOf(en.expiresAt) = "string" THEN en.expiresAt
               ELSE JUndef,
               en.scopes), "claude-code")

loadFromClaudeCodeKeychain(kc) ==
  IF kc.kind = "unsupported" THEN Err("keychain-not-supported")
  ELSE IF kc.kind \in {"missing", "corrupt", "null"} THEN Err("claude-code-keychain-not-found")
  ELSE parseClaudeCodeCredentials(kc.entry)

loadFromClaudeCodeFile(f) ==
  IF f.kind = "absent" THEN Err("claude-code-file-not-found")
  ELSE IF f.kind \in {"corrupt", "null"} THEN Err("Failed to parse Claude Code credentials")
  ELSE parseClaudeCodeCredentials(f.entry)

loadFromClaudeCode(kc, f) ==
  LET keychainResult == loadFromClaudeCodeKeychain(kc)
      fileResult == loadFromClaudeCodeFile(f)
  IN IF keychainResult.success THEN keychainResult
     ELSE IF fileResult.success THEN fileResult
     ELSE Err("claude-code-not-found")

loadFromTestCredentials(pathSet, f) ==
  IF ~pathSet THEN Err("test-path-not-set")
  ELSE IF f.kind = "absent" THEN Err("test-credentials-not-found")
  ELSE IF f.kind \in {"corrupt", "null"} THEN Err("Failed to parse test credentials")
  ELSE IF Falsy(f.access_token) THEN Err("No access_token in test credentials file.")
  ELSE Ok(Cred(f.access_token, f.refresh_token,
               IF Truthy(f.expires_at) THEN DateToISOString(f.expires_at) ELSE JUndef,
               NoScopes), "opencode")

NoCredentialsFound == "No credentials found. Please authenticate via Claude Code or OpenCode."

\* st is the credential store: [testPath, testFile, keychain, claudeFile, openCodeFile]

\* mutant: OpenCode is never tried after Claude Code
loadOAuthCredentialsNoFallback(st) ==
  IF st.testPath THEN loadFromTestCredentials(st.testPath, st.testFile)
  ELSE LET claudeCodeResult == loadFromClaudeCode(st.keychain, st.claudeFile)
       IN IF claudeCodeResult.success THEN claudeCodeResult
          ELSE Err(NoCredentialsFound)

\* mutant: a Claude Code file that exists but does not load ends the resolution
loadOAuthCredentialsStopOnMalformed(st) ==
  IF st.testPath THEN loadFromTestCredentials(st.testPath, st.testFile)
  ELSE
    LET claudeCodeResult == loadFromClaudeCode(st.keychain, st.claudeFile)
        openCodeResult == loadFromOpenCode(st.openCodeFile)
    IN IF claudeCodeResult.success THEN claudeCodeResult
       ELSE IF st.claudeFile.kind # "absent" THEN loadFromClaudeCodeFile(st.claudeFile)
       ELSE IF openCodeResult.success THEN openCodeResult
       ELSE IF openCodeResult.error = "opencode-not-found" THEN Err(NoCredentialsFound)
       ELSE openCodeResult

\* mutant: the aggregated message is skipped and the first source's marker returned
loadOAuthCredentialsMarker(st) ==
  IF st.testPath THEN loadFromTestCredentials(st.testPath, st.testFile)
  ELSE
    LET claudeCodeResult == loadFromClaudeCode(st.keychain, st.claudeFile)
        openCodeResult == loadFromOpenCode(st.openCodeFile)
    IN IF claudeCodeResult.success THEN claudeCodeResult
       ELSE IF openCodeResult.success THEN openCodeResult
       ELSE IF claudeCodeResult.error = "claude-code-not-found" /\ openCodeResult.error # "opencode-not-found"
         THEN openCodeResult
       ELSE claudeCodeResult

loadOAuthCredentials(st) ==
  IF st.testPath THEN loadFromTestCredentials(st.testPath, st.testFile)
  ELSE
    LET claudeCodeResult == loadFromClaudeCode(st.keychain, st.claudeFile)
        openCodeResult == loadFromOpenCode(st.openCodeFile)
        claudeCodeNotFound == claudeCodeResult.error = "claude-code-not-found"
        openCodeNotFound == openCodeResult.error = "opencode-not-found"
    IN IF claudeCodeResult.success THEN claudeCodeResult
       ELSE IF openCodeResult.success THEN openCodeResult
       ELSE IF claudeCodeNotFound /\ openCodeNotFound THEN Err(NoCredentialsFound)
       ELSE IF claudeCodeNotFound THEN openCodeResult ELSE claudeCodeResult

(***************************************************************************)
(* oauth-credentials.ts, the earlier revision (priority: OpenCode, Claude  *)
(* Code file; a credential within five minutes of expiry is refused).      *)
(***************************************************************************)
bufferMs == 300000

isTokenExpiredMs(expiresMs, now) ==
  IF ~Truthy(expiresMs) THEN FALSE
  ELSE expiresMs.ms - bufferMs < now

isTokenExpiredIso(expiresAt, now) ==
  IF ~Truthy(expiresAt) THEN FALSE
  ELSE LET t == DateGetTime(expiresAt)
       IN IF t.k = "NaN" THEN FALSE ELSE t.ms - bufferMs < now

loadFromOpenCodeV1(f, now) ==
  IF f.kind = "absent" THEN Err("opencode-not-found")
  ELSE IF f.kind \in {"corrupt", "null"} THEN Err("Failed to parse OpenCode auth")
  ELSE IF ~f.entry.present \/ Falsy(f.entry.access)
    THEN Err("No Anthropic OAuth in OpenCode auth file.")
  ELSE IF ~StartsWithOAuthPrefix(f.entry.access)
    THEN Err("Invalid OAuth token format in OpenCode.")
  ELSE IF isTokenExpiredMs(f.entry.expires, now)
    THEN Err("OpenCode OAuth token expired. Run 'opencode auth login'.")
  ELSE Ok(Cred(f.entry.access, f.entry.refresh,
               IF Truthy(f.entry.expires) THEN DateToISOString(f.entry.expires) ELSE JUndef,
               NoScopes), "opencode")

loadFromClaudeCodeV1(f, now) ==
  IF f.kind = "absent" THEN Err("claude-code-not-found")
  ELSE IF f.kind \in {"corrupt", "null"} THEN Err("Failed to parse Claude Code credentials")
  ELSE IF ~f.entry.present \/ Falsy(f.entry.accessToken)
    THEN Err("No OAuth credentials in Claude Code file.")
  ELSE IF ~StartsWithOAuthPrefix(f.entry.accessToken)
    THEN Err("Invalid OAuth token format in Claude Code.")
  ELSE IF isTokenExpiredIso(f.entry.expiresAt, now)
    THEN Err("Claude Code OAuth token expired. Run 'claude'.")
  ELSE Ok(Cred(f.entry.accessToken, f.entry.refreshToken, f.entry.expiresAt,
               f.entry.scopes), "claude-code")

NoCredentialsFoundV1 == "No credentials found. Run 'opencode auth login' or install Claude Code."

loadOAuthCredentialsV1(st, now) ==
  IF st.testPath THEN loadFromTestCredentials(st.testPath, st.testFile)
  ELSE
    LET openCodeResult == loadFromOpenCodeV1(st.openCodeFile, now)
        claudeCodeResult == loadFromClaudeCodeV1(st.claudeFile, now)
        openCodeNotFound == openCodeResult.error = "opencode-not-found"
        claudeCodeNotFound == claudeCodeResult.error = "claude-code-not-found"
    IN IF openCodeResult.success THEN openCodeResult
       ELSE IF claudeCodeResult.success THEN claudeCodeResult
       ELSE IF openCodeNotFound /\ claudeCodeNotFound THEN Err(NoCredentialsFoundV1)
       ELSE IF openCodeNotFound THEN claudeCodeResult ELSE openCodeResult

(***************************************************************************)
(* data/index.ts: the write-back of a credential record.  Each writer      *)
(* gives the file after the call; "throws" is an exception that            *)
(* writeBackCredentials turns into false.  io is what the file system does *)
(* during the call: io.read is whether readFileSync succeeds, io.write     *)
(* whether writeFileSync does.                                             *)
(***************************************************************************)
IoOutcomes == [read : BOOLEAN, write : BOOLEAN]

Wrote(f) == [threw |-> FALSE, file |-> f]
Threw(f) == [threw |-> TRUE, file |-> f]

writeTestCredentials(f, c, io) ==
  IF ~io.write THEN Threw(f)
  ELSE Wrote(TestFileOf("object", "", c.accessToken, c.refreshToken,
                        JsonValue(IF Truthy(c.expiresAt) THEN DateGetTime(c.expiresAt)
                                  ELSE JUndef)))

\* mutant: the file is written afresh, not merged into what it held
writeClaudeCodeCredentialsFresh(f, c, io) ==
  IF f.kind = "null" /\ io.read THEN Threw(f)
  ELSE IF ~io.write THEN Threw(f)
  ELSE Wrote(ClaudeFileOf("object", "",
               ClaudeEntry(c.accessToken, c.refreshToken, JsonValue(c.expiresAt),
                           NoScopes, "")))

writeClaudeCodeCredentials(f, c, io) ==
  LET existing == IF f.kind = "object" /\ io.read THEN f
                  ELSE ClaudeFileOf("object", "", NoClaudeEntry)
      claudeAiOauth == existing.entry
  IN IF f.kind = "null" /\ io.read THEN Threw(f)
     ELSE IF ~io.write THEN Threw(f)
     ELSE Wrote(ClaudeFileOf("object", existing.other,
                  ClaudeEntry(c.accessToken, c.refreshToken, JsonValue(c.expiresAt),
                              claudeAiOauth.scopes, claudeAiOauth.sibling)))

\* mutant: the refresh token is left out of the entry
writeOpenCodeCredentialsNoRefresh(f, c, io) ==
  LET existing == IF f.kind = "object" /\ io.read THEN f
                  ELSE OpenFileOf("object", "", NoOpenEntry)
  IN IF f.kind = "null" /\ io.read THEN Threw(f)
     ELSE IF ~io.write THEN Threw(f)
     ELSE Wrote(OpenFileOf("object", existing.other,
                  OpenEntry("oauth", c.accessToken, Undef,
                            JsonValue(IF Truthy(c.expiresAt) THEN DateGetTime(c.expiresAt)
                                      ELSE JUndef), "")))

writeOpenCodeCredentials(f, c, io) ==
  LET existing == IF f.kind = "object" /\ io.read THEN f
                  ELSE OpenFileOf("object", "", NoOpenEntry)
  IN IF f.kind = "null" /\ io.read THEN Threw(f)
     ELSE IF ~io.write THEN Threw(f)
     ELSE Wrote(OpenFileOf("object", existing.other,
                  OpenEntry("oauth", c.accessToken, c.refreshToken,
                            JsonValue(IF Truthy(c.expiresAt) THEN DateGetTime(c.expiresAt)
                                      ELSE JUndef), "")))

\* the store after writeBackCredentials(source, c) and the value it returns
writeBackCredentials(st, source, c, io) ==
  IF st.testPath
    THEN LET w == writeTestCredentials(st.testFile, c, io)
         IN [ok |-> ~w.threw, store |-> [st EXCEPT !.testFile = w.file]]
  ELSE IF source = "claude-code"
    THEN LET w == writeClaudeCodeCredentials(st.claudeFile, c, io)
         IN [ok |-> ~w.threw, store |-> [st EXCEPT !.claudeFile = w.file]]
  ELSE IF source = "opencode"
    THEN LET w == writeOpenCodeCredentials(st.openCodeFile, c, io)
         IN [ok |-> ~w.threw, store |-> [st EXCEPT !.openCodeFile = w.file]]
  ELSE [ok |-> FALSE, store |-> st]

(***************************************************************************)
(* State.                                                                  *)
(*   store    the credential store: the test override, the keychain and    *)
(*            the two credential files                                     *)
(*   changes  how many times the store has been rewritten                  *)
(*   credOp   the last operation of the credential store adapter           *)
(*   credentials  the credential the API client has cached (NoCred: null)   *)
(*   call     the public method of the API client that is running          *)
(*   req      per endpoint, the request of that method: where it stands,   *)
(*            the token it sent, its GETs so far and its result            *)
(*   monitorState  the Monitor State record that monitor.getState() returns *)
(*   engine   the Monitor Engine besides that record: its timer, its       *)
(*            subscribers, the fetches in flight                           *)
(*   monOp    the last operation of the Monitor Engine                     *)
(*   tmux     the tmux session: the panes of window 0, the _monitor_tmp    *)
(*            holding window, titles, focus, the layout hook                *)
(*   compactMode  the rendering mode of the CLI                            *)
(*   paneOp   the last pane operation of the CLI                           *)
(*   refreshOp  the token refresh of the poll that was answered 401: how   *)
(*            far it has come, the credential it started from, what the    *)
(*            token endpoint did and what refreshOAuthToken returned       *)
(***************************************************************************)
VARIABLES store, changes, credOp, credentials, call, req, monitorState, engine, monOp,
          tmux, compactMode, paneOp, refreshOp

credVars == <<store, changes, credOp, refreshOp>>
apiVars == <<credentials, call, req>>
monVars == <<monitorState, engine, monOp>>
paneVars == <<tmux, compactMode, paneOp>>
vars == <<store, changes, credOp, credentials, call, req, monitorState, engine, monOp,
          tmux, compactMode, paneOp, refreshOp>>

\* what the credential store adapter's operations leave alone
notCred == <<apiVars, monVars, paneVars, refreshOp>>
\* what the API client's operations leave alone
notApi == <<changes, credOp, monVars, paneVars, refreshOp>>
\* what the Monitor Engine's operations leave alone
notMon == <<credVars, apiVars, paneVars>>
\* what the pane operations leave alone
notPane == <<credVars, apiVars, monVars>>

Endpoints == {"usage", "profile"}
Pending == [state |-> "pending", type |-> "", statusCode |-> 0]
Success == [state |-> "success", type |-> "", statusCode |-> 0]
Failure(t, code) == [state |-> "failure", type |-> t, statusCode |-> code]
Rejected == [state |-> "rejected", type |-> "TypeError", statusCode |-> 0]
NoReread == [done |-> FALSE, success |-> FALSE, token |-> Undef]
IdleReq == [pc |-> "idle", usedToken |-> Undef, isRetry |-> FALSE, log |-> <<>>,
            reread |-> NoReread, result |-> Pending, finished |-> 0]
\* the requests rq after the request of endpoint e took a step: when that
\* step settled it, it is marked as the first or the second to settle
Finish(rq, e) ==
  IF rq[e].pc # "done" THEN rq
  ELSE [rq EXCEPT ![e].finished =
          IF \E o \in Endpoints \ {e} : rq[o].pc = "done" THEN 2 ELSE 1]

\* bounds of the model
MaxChanges == 1

\* the values the model draws from
ExpiresAtValues == {JUndef, JIso(1000000, TRUE), JIso(1000000, FALSE), JIso(0, TRUE), JBadStr}
\* no writer looks at the scopes of the record it is given: one record with
\* scopes stands for all of them
CredRecords ==
  {Cred(a, r, e, NoScopes) : a \in {TokenA, MockToken}, r \in {Undef, "rt-1"},
                             e \in ExpiresAtValues}
  \cup {Cred(TokenA, "rt-1", JIso(1000000, TRUE), SomeScopes)}
NowValues == {500000, 1900000}

TestFiles ==
  {TestAbsent,
   TestFileOf("corrupt", "", Undef, Undef, JUndef),
   TestFileOf("object", "", TokenB, "rt-0", JNum(2000000)),
   TestFileOf("object", "fixtureNote", MockToken, Undef, JUndef)}
Keychains ==
  {KeychainUnsupported,
   KeychainOf("missing", NoClaudeEntry),
   KeychainOf("corrupt", NoClaudeEntry),
   KeychainOf("object", ClaudeEntry(TokenB, "rt-k", JNum(2000000), SomeScopes, ""))}
ClaudeFiles ==
  {ClaudeAbsent,
   ClaudeFileOf("corrupt", "", NoClaudeEntry),
   ClaudeFileOf("null", "", NoClaudeEntry),
   ClaudeFileOf("object", "mcpOAuth", NoClaudeEntry),
   ClaudeFileOf("object", "", ClaudeEntry(MockToken, "rt-0", JUndef, NoScopes, "")),
   ClaudeFileOf("object", "mcpOAuth",
                ClaudeEntry(TokenB, "rt-0", JNum(2000000), SomeScopes, "subscriptionType")),
   ClaudeFileOf("object", "", ClaudeEntry(TokenB, Undef, JIso(2000000, TRUE), NoScopes, ""))}
OpenFiles ==
  {OpenAbsent,
   OpenFileOf("corrupt", "", NoOpenEntry),
   OpenFileOf("null", "", NoOpenEntry),
   OpenFileOf("object", "openai", NoOpenEntry),
   OpenFileOf("object", "", OpenEntry("oauth", MockToken, "rt-0", JUndef, "")),
   OpenFileOf("object", "openai",
              OpenEntry("oauth", TokenB, "rt-0", JNum(2000000), "accountId"))}

\* With TEST_CREDENTIALS_PATH set only the test file is ever read or written,
\* and without it the test file never is: the files out of play are absent.
Stores ==
  [testPath : {TRUE}, testFile : TestFiles, keychain : {KeychainUnsupported},
   claudeFile : {ClaudeAbsent}, openCodeFile : {OpenAbsent}]
  \cup [testPath : {FALSE}, testFile : {TestAbsent}, keychain : Keychains,
        claudeFile : ClaudeFiles, openCodeFile : OpenFiles]

\* what the file of a source holds besides the credential fields that
\* writeBackCredentials is given: kind, other top-level keys, and the entry's
\* sibling fields and scopes
Siblings(st, target) ==
  CASE target = "test" ->
         [kind |-> st.testFile.kind, other |-> st.testFile.other, present |-> FALSE,
          sibling |-> "", scopes |-> NoScopes]
    [] target = "claude-code" ->
         [kind |-> st.claudeFile.kind, other |-> st.claudeFile.other,
          present |-> st.claudeFile.entry.present,
          sibling |-> st.claudeFile.entry.sibling, scopes |-> st.claudeFile.entry.scopes]
    [] target = "opencode" ->
         [kind |-> st.openCodeFile.kind, other |-> st.openCodeFile.other,
          present |-> st.openCodeFile.entry.present,
          sibling |-> st.openCodeFile.entry.sibling, scopes |-> NoScopes]

NoSiblings == [kind |-> "absent", other |-> "", present |-> FALSE, sibling |-> "",
               scopes |-> NoScopes]

\* credOp: op is the operation, result what a load returned; for a write:
\* source the file written, cred the record written, ok the value returned,
\* before what the file held besides the credential fields before the call
\* and ioError whether a file operation that the call made threw
NoOp == [op |-> "none", source |-> "none", cred |-> NoCred, ok |-> FALSE,
         ioError |-> FALSE, now |-> 0, before |-> NoSiblings, result |-> Err("")]

(***************************************************************************)
(* cli/pane-manager.ts: the tmux session that runLaunch builds.  Window 0  *)
(* holds the main pane and the monitor pane; panes lists them by pane      *)
(* index and layout is "horizontal" for panes side by side, "vertical"     *)
(* for stacked panes and "single" for one pane.  tmp is the pane that the  *)
(* window _monitor_tmp holds ("none": no such window).  size is the size   *)
(* the monitor pane was given (unit "half": no -l, tmux halves the target; *)
(* "window": alone in its window), hook the pane index that the            *)
(* window-layout-changed hook resizes ("none": no hook), active the pane   *)
(* of window 0 that has the focus.                                         *)
(***************************************************************************)
HORIZONTAL_PANE_SIZE == 20
VERTICAL_PANE_LINES == 3

Positions == {"left", "right", "top", "bottom"}
Placement(position) ==
  CASE position = "left" ->
         [layout |-> "horizontal", before |-> TRUE, index |-> "0.0",
          size |-> [n |-> HORIZONTAL_PANE_SIZE, unit |-> "%"]]
    [] position = "right" ->
         [layout |-> "horizontal", before |-> FALSE, index |-> "0.1",
          size |-> [n |-> HORIZONTAL_PANE_SIZE, unit |-> "%"]]
    [] position = "top" ->
         [layout |-> "vertical", before |-> TRUE, index |-> "0.0",
          size |-> [n |-> VERTICAL_PANE_LINES, unit |-> "lines"]]
    [] position = "bottom" ->
         [layout |-> "vertical", before |-> FALSE, index |-> "0.1",
          size |-> [n |-> VERTICAL_PANE_LINES, unit |-> "lines"]]

\* the pane that tmux finds at s:0.<i>, "none" if there is none
PaneAt(t, index) ==
  IF index = "0.0" THEN t.panes[1]
  ELSE IF Len(t.panes) >= 2 THEN t.panes[2] ELSE "none"

\* runLaunch(position): split-window for the monitor pane, its title, the
\* focus back on the main pane, and for top and bottom the resize hook
runLaunch(position) ==
  LET pl == Placement(position)
  IN [panes |-> IF pl.before THEN <<"monitor", "main">> ELSE <<"main", "monitor">>,
      layout |-> pl.layout,
      tmp |-> "none",
      title |-> [main |-> "main", monitor |-> "monitor"],
      active |-> "main",
      size |-> pl.size,
      hook |-> IF pl.layout = "vertical" THEN pl.index ELSE "none"]

\* paneOp: op is the operation; for a move: the direction, the tmux commands
\* that failed, the session and the rendering mode before the call and the
\* MoveResult
NoPaneOp ==
  [op |-> "none", direction |-> "none", failed |-> {}, before |-> runLaunch("right"),
   compactBefore |-> FALSE, result |-> [success |-> FALSE, newCompactMode |-> FALSE]]
\* no pane operation is looked at: the session as usage-monitor launch
\* leaves it by default
PaneLaunchedRight ==
  /\ tmux = runLaunch("right")
  /\ compactMode = FALSE
  /\ paneOp = NoPaneOp

\* The Monitor Engine as createOAuthMonitor(config, source) returns it: no
\* data, no error, not running.  lastFetch counts fetch cycles; 0 is null.
Null == "null"
NewMonitorState ==
  [usage |-> Null, profile |-> Null, lastFetch |-> 0, lastError |-> Null,
   isRunning |-> FALSE]
\* timer: the recurring timer is armed; stopped: stop() has been called;
\* inFlight: the fetches that have not settled; fetches: how many fetches
\* have been started; tickSkipped: the timer has fired with a fetch in
\* flight since the last fetch went out
NewEngine ==
  [started |-> FALSE, stopped |-> FALSE, timer |-> FALSE, subscribers |-> {},
   inFlight |-> {}, fetches |-> 0, tickSkipped |-> FALSE]
\* monOp: op is the operation; skipped is whether a fetch() or a timer tick
\* started no fetch; for a fetch that settled: the answers of the two
\* endpoints, the payload of the response and whether the result was
\* discarded; before and inFlightBefore are the Monitor State and the fetches
\* in flight before the operation, notified the subscribers it called
NoMonOp ==
  [op |-> "none", skipped |-> FALSE, discarded |-> FALSE, usageStatus |-> 0,
   profileStatus |-> 0, payload |-> Null, before |-> NewMonitorState,
   inFlightBefore |-> {}, notified |-> {}]
MonitorConstructed ==
  /\ monitorState = NewMonitorState
  /\ engine = NewEngine
  /\ monOp = NoMonOp

\* no token refresh has been started
NoRefreshOp ==
  [phase |-> "idle", loaded |-> Err(""), outcome |-> [kind |-> "none"], now |-> 0,
   result |-> [success |-> FALSE, credentials |-> NoCred, error |-> <<>>],
   written |-> FALSE, sent |-> Undef]

InitCred ==
  /\ MonitorConstructed
  /\ PaneLaunchedRight
  /\ refreshOp = NoRefreshOp
  /\ store \in Stores
  /\ changes = 0
  /\ credOp = NoOp
  /\ credentials = NoCred
  /\ call = "none"
  /\ req = [e \in Endpoints |-> IdleReq]

\* loadOAuthCredentials(), current revision
Load ==
  /\ credOp' = [NoOp EXCEPT !.op = "load", !.result = loadOAuthCredentials(store)]
  /\ UNCHANGED <<store, changes, notCred>>

\* loadOAuthCredentials(), earlier revision, called at time now
LoadV1 ==
  \E now \in NowValues :
    /\ credOp' = [NoOp EXCEPT !.op = "loadV1", !.now = now,
                              !.result = loadOAuthCredentialsV1(store, now)]
    /\ UNCHANGED <<store, changes, notCred>>

\* the loader of one source, as the store adapter applies it to that source
LoadSource(st, source) ==
  CASE source = "test" -> loadFromTestCredentials(st.testPath, st.testFile)
    [] source = "claude-code" -> loadFromClaudeCodeFile(st.claudeFile)
    [] source = "opencode" -> loadFromOpenCode(st.openCodeFile)

\* the source whose file writeBackCredentials(source, ...) writes
Target(st, source) == IF st.testPath THEN "test" ELSE source

\* the file operations writeBackCredentials(source, ...) makes: writeFileSync
\* always, readFileSync when the file of a tool exists (the test override file
\* is never read)
ReadsFile(st, source) ==
  /\ Target(st, source) # "test"
  /\ Siblings(st, Target(st, source)).kind # "absent"
IoError(st, source, io) == ~io.write \/ (ReadsFile(st, source) /\ ~io.read)

\* writeBackCredentials(source, c)
WriteBack ==
  \E source \in {"claude-code", "opencode"}, c \in CredRecords, io \in IoOutcomes :
    LET w == writeBackCredentials(store, source, c, io)
    IN /\ changes < MaxChanges
       /\ store' = w.store
       /\ changes' = changes + 1
       /\ credOp' = [NoOp EXCEPT !.op = "write", !.source = Target(store, source),
                                 !.cred = IF w.ok THEN c ELSE NoCred, !.ok = w.ok,
                                 !.ioError = IoError(store, source, io),
                                 !.before = Siblings(store, Target(store, source))]
       /\ UNCHANGED notCred

\* a load from the source that was just written
LoadWritten ==
  /\ credOp.op = "write"
  /\ credOp.ok
  /\ credOp' = [credOp EXCEPT !.op = "loadWritten",
                              !.result = LoadSource(store, credOp.source)]
  /\ UNCHANGED <<store, changes, notCred>>

\* another process rewrites one of the credential files
ExternalWrite ==
  /\ changes < MaxChanges
  /\ \/ \E f \in TestFiles : store.testPath /\ store' = [store EXCEPT !.testFile = f]
     \/ \E f \in ClaudeFiles : ~store.testPath /\ store' = [store EXCEPT !.claudeFile = f]
     \/ \E f \in OpenFiles : ~store.testPath /\ store' = [store EXCEPT !.openCodeFile = f]
  /\ store' # store
  /\ changes' = changes + 1
  /\ credOp' = [NoOp EXCEPT !.op = "external"]
  /\ UNCHANGED notCred

NextCred ==
  \/ Load
  \/ LoadV1
  \/ WriteBack
  \/ LoadWritten
  \/ ExternalWrite

SpecCred == InitCred /\ [][NextCred]_vars

(***************************************************************************)
(* The credential store adapter: what the claims call not found, malformed *)
(* and valid, stated on the files themselves.                              *)
(***************************************************************************)
FileMissing(f) == f.kind = "absent"
KeychainNotFound(kc) == kc.kind \in {"unsupported", "missing"}
ClaudeEntryValid(f) ==
  f.kind = "object" /\ f.entry.present /\ StartsWithOAuthPrefix(f.entry.accessToken)
OpenEntryValid(f) ==
  f.kind = "object" /\ f.entry.present /\ StartsWithOAuthPrefix(f.entry.access)
\* the file exists but is not JSON, or its token lacks the prefix
ClaudeMalformed(f) ==
  \/ f.kind = "corrupt"
  \/ f.kind = "object" /\ f.entry.present /\ ~Falsy(f.entry.accessToken)
       /\ ~StartsWithOAuthPrefix(f.entry.accessToken)
OpenMalformed(f) ==
  \/ f.kind = "corrupt"
  \/ f.kind = "object" /\ f.entry.present /\ ~Falsy(f.entry.access)
       /\ ~StartsWithOAuthPrefix(f.entry.access)
\* not within five minutes of expiry at time now
Unexpired(e, now) == e.k = "undefined" \/ e.ms - 300000 >= now
ClaudeHardErrors ==
  {"Failed to parse Claude Code credentials", "Invalid OAuth token format in Claude Code."}
OpenHardErrors ==
  {"Failed to parse OpenCode auth", "Invalid OAuth token format in OpenCode."}
NotFoundMarkers ==
  {"keychain-not-supported", "claude-code-keychain-not-found", "claude-code-file-not-found",
   "claude-code-not-found", "opencode-not-found", "test-path-not-set",
   "test-credentials-not-found"}
Loaded == credOp.op \in {"load", "loadV1"}
Returned(token, source) ==
  /\ credOp.result.success
  /\ credOp.result.source = source
  /\ credOp.result.credentials.accessToken = token

\* C5: with the sources tried in priority order (no test override) and every
\* source up to i not found, a valid source i+1 is the one returned and the one
\* named: keychain -> file -> OpenCode in the current revision, OpenCode ->
\* Claude Code file in the earlier one.
C5_NextSourceAfterNotFound ==
  /\ (credOp.op = "load" /\ ~store.testPath /\ KeychainNotFound(store.keychain)
        /\ ClaudeEntryValid(store.claudeFile))
       => /\ Returned(store.claudeFile.entry.accessToken, "claude-code")
          /\ credOp.result.credentials.refreshToken = store.claudeFile.entry.refreshToken
  /\ (credOp.op = "load" /\ ~store.testPath /\ KeychainNotFound(store.keychain)
        /\ FileMissing(store.claudeFile) /\ OpenEntryValid(store.openCodeFile))
       => /\ Returned(store.openCodeFile.entry.access, "opencode")
          /\ credOp.result.credentials.refreshToken = store.openCodeFile.entry.refresh
  /\ (credOp.op = "loadV1" /\ ~store.testPath /\ FileMissing(store.openCodeFile)
        /\ ClaudeEntryValid(store.claudeFile)
        /\ Unexpired(store.claudeFile.entry.expiresAt, credOp.now))
       => Returned(store.claudeFile.entry.accessToken, "claude-code")

C5_Witness ==
  /\ credOp.op = "load"
  /\ ~store.testPath
  /\ KeychainNotFound(store.keychain)
  /\ FileMissing(store.claudeFile)
  /\ OpenEntryValid(store.openCodeFile)
  /\ credOp.result.source = "opencode"

\* C6: a source whose file exists but is not JSON, or whose token lacks the
\* prefix, is a hard error of that source: when the load fails, the failure
\* returned is a hard error of a malformed source and never the generic
\* "no credentials found".
C6_MalformedErrorVisible ==
  (credOp.op = "load" /\ ~store.testPath /\ ~credOp.result.success
     /\ (ClaudeMalformed(store.claudeFile) \/ OpenMalformed(store.openCodeFile)))
    => credOp.result.error \in
         (IF ClaudeMalformed(store.claudeFile) THEN ClaudeHardErrors ELSE {})
           \cup (IF OpenMalformed(store.openCodeFile) THEN OpenHardErrors ELSE {})

\* C7 as stated: when a higher-priority source exists but is malformed, the
\* credential of a lower-priority source is never returned.
C7_MalformedStopsResolution ==
  /\ (credOp.op = "load" /\ ~store.testPath /\ ClaudeMalformed(store.claudeFile))
       => ~(credOp.result.success /\ credOp.result.source = "opencode")
  /\ (credOp.op = "loadV1" /\ ~store.testPath /\ OpenMalformed(store.openCodeFile))
       => ~(credOp.result.success /\ credOp.result.source = "claude-code")

\* C7 amended: resolution passes over a malformed source as it passes over a
\* missing one; the first source in priority order that holds a valid
\* credential is returned, and the load fails only when none does.
C7_FirstValidSourceWins ==
  /\ (credOp.op = "load" /\ ~store.testPath)
       => /\ credOp.result.success
               <=> \/ ClaudeEntryValid(store.keychain)
                   \/ ClaudeEntryValid(store.claudeFile)
                   \/ OpenEntryValid(store.openCodeFile)
          /\ (~ClaudeEntryValid(store.keychain) /\ ClaudeMalformed(store.claudeFile)
                /\ OpenEntryValid(store.openCodeFile))
               => Returned(store.openCodeFile.entry.access, "opencode")
  /\ (credOp.op = "loadV1" /\ ~store.testPath /\ OpenMalformed(store.openCodeFile)
        /\ ClaudeEntryValid(store.claudeFile)
        /\ Unexpired(store.claudeFile.entry.expiresAt, credOp.now))
       => Returned(store.claudeFile.entry.accessToken, "claude-code")

C7_Witness ==
  /\ credOp.op = "load"
  /\ ~store.testPath
  /\ ClaudeMalformed(store.claudeFile)
  /\ credOp.result.success
  /\ credOp.result.source = "opencode"

\* every source that is consulted reports "not found"
AllNotFound ==
  IF store.testPath THEN FileMissing(store.testFile)
  ELSE /\ credOp.op = "load" => KeychainNotFound(store.keychain)
       /\ FileMissing(store.claudeFile)
       /\ FileMissing(store.openCodeFile)

\* C8 as stated: when every source reports "not found" the failure is the one
\* aggregated "no credentials found" message, never a per-source marker.
C8_AggregatedNotFound ==
  (Loaded /\ AllNotFound)
    => /\ ~credOp.result.success
       /\ credOp.result.error \in {NoCredentialsFound, NoCredentialsFoundV1}

\* C8 amended: without the test override, all sources not found gives the
\* aggregated message of the revision, and no load returns a per-source
\* marker; with the override set and its file missing the load returns the
\* marker test-credentials-not-found.
C8_AggregatedNotFoundNoOverride ==
  /\ (Loaded /\ ~store.testPath)
       => /\ credOp.result.error \notin NotFoundMarkers
          /\ AllNotFound
               => credOp.result
                    = Err(IF credOp.op = "load" THEN NoCredentialsFound
                          ELSE NoCredentialsFoundV1)
  /\ (Loaded /\ store.testPath /\ AllNotFound)
       => credOp.result = Err("test-credentials-not-found")

C8_Witness ==
  /\ credOp.op = "load"
  /\ ~store.testPath
  /\ AllNotFound
  /\ credOp.result.error = NoCredentialsFound

\* C9 as stated: a successful write-back followed at once by a load from the
\* same source returns the written record, equal in all four fields.
C9_RoundTrip ==
  credOp.op = "loadWritten"
    => credOp.result.success /\ credOp.result.credentials = credOp.cred

\* the token passes the check of the source's loader
TokenAccepted(source, token) ==
  IF source = "test" THEN ~Falsy(token) ELSE StartsWithOAuthPrefix(token)
\* the expiry survives the conversion to epoch milliseconds and back
ExpirySurvives(source, e) ==
  \/ source = "claude-code"
  \/ e.k = "undefined"
  \/ e.k = "string" /\ e.canon /\ e.ms # 0

\* C9 amended: after a successful write-back the load from the same source
\* succeeds exactly when the written access token passes that source's token
\* check, and then returns the written accessToken and refreshToken; expiresAt
\* is returned unchanged by the claude-code file, and by the OpenCode and test
\* files when it is absent or a canonical ISO string of a non-zero instant;
\* scopes is not written: the OpenCode and test files return none and the
\* claude-code file returns the scopes it held before the write (none when
\* the write could not read the file).
C9_RoundTripOfWrittenFields ==
  credOp.op = "loadWritten"
    => /\ credOp.result.success <=> TokenAccepted(credOp.source, credOp.cred.accessToken)
       /\ credOp.result.success
            => /\ credOp.result.credentials.accessToken = credOp.cred.accessToken
               /\ credOp.result.credentials.refreshToken = credOp.cred.refreshToken
               /\ ExpirySurvives(credOp.source, credOp.cred.expiresAt)
                    => credOp.result.credentials.expiresAt = credOp.cred.expiresAt
               /\ credOp.result.credentials.scopes
                    = IF credOp.source = "claude-code" /\ ~credOp.ioError
                        THEN credOp.before.scopes
                      ELSE NoScopes

C9_Witness ==
  /\ credOp.op = "loadWritten"
  /\ credOp.source = "opencode"
  /\ credOp.result.success
  /\ credOp.cred.refreshToken = "rt-1"
  /\ credOp.cred.expiresAt.k = "string"
  /\ credOp.result.credentials = credOp.cred

\* what the written file holds besides the credential fields, after the call
After == Siblings(store, credOp.source)
Written == credOp.op = "write" /\ credOp.ok /\ credOp.before.kind = "object"
\* the write-back read the file it wrote to
ReadBefore == ~credOp.ioError

\* C10 as stated: whatever the file held besides the credential fields
\* (other top-level keys, sibling fields of the credential entry) is there
\* with the same value after a successful write-back, for every source.
C10_MergeEverySource ==
  Written /\ ReadBefore
    => /\ After.other = credOp.before.other
       /\ credOp.before.present => After.sibling = credOp.before.sibling

\* C10 amended: when the write-back could read the file, the claude-code file
\* keeps its other top-level keys and the sibling fields of claudeAiOauth
\* (scopes among them) and the OpenCode file keeps its other top-level
\* entries but its anthropic entry is replaced whole; the test override file
\* is overwritten whole.
C10_MergePerSource ==
  Written /\ (credOp.source # "test" => ReadBefore)
    => /\ credOp.source = "claude-code"
            => /\ After.other = credOp.before.other
               /\ After.sibling = credOp.before.sibling
               /\ After.scopes = credOp.before.scopes
       /\ credOp.source = "opencode"
            => /\ After.other = credOp.before.other
               /\ After.sibling = ""
               /\ store.openCodeFile.entry.type = "oauth"
       /\ credOp.source = "test" => After.other = ""

C10_Witness ==
  /\ Written
  /\ ReadBefore
  /\ credOp.source = "claude-code"
  /\ credOp.before.other = "mcpOAuth"
  /\ credOp.before.sibling = "subscriptionType"
  /\ After.sibling = "subscriptionType"
  /\ store.claudeFile.entry.accessToken = credOp.cred.accessToken

\* C11: writeBackCredentials returns false whenever a file operation it makes
\* fails (the existing file cannot be read, or the file cannot be written),
\* for every source and for the test override path.  It never throws: every
\* exception of a writer is caught and turned into false.
C11_FalseOnAnyIoError ==
  credOp.op = "write" /\ credOp.ioError => ~credOp.ok

(***************************************************************************)
(* data/oauth-api.ts: the usage API client.                                *)
(*                                                                         *)
(* A response is a status and, for a 2xx status, a body: "valid" (the      *)
(* endpoint's documented JSON), "notjson" (response.json() throws),        *)
(* "empty" (a JSON object without the expected fields) or "null" (the      *)
(* JSON value null).  Status 0 in a request's log is a fetch that failed   *)
(* at the transport.                                                       *)
(***************************************************************************)
Statuses == {200, 401, 403, 429, 500}
Bodies == {"valid", "notjson", "empty", "null"}
\* mutant: no status counts as ok
ResponseOkNever(status) == FALSE
ResponseOk(status) == status >= 200 /\ status <= 299

\* mutant: 403 is not taken for an authentication failure
createErrorOnly401(statusCode) ==
  Failure(IF statusCode = 401 THEN "authentication_error"
          ELSE IF statusCode = 429 THEN "rate_limit_error"
          ELSE "api_error",
          statusCode)

createError(statusCode) ==
  Failure(IF statusCode = 401 \/ statusCode = 403 THEN "authentication_error"
          ELSE IF statusCode = 429 THEN "rate_limit_error"
          ELSE "api_error",
          statusCode)

\* the credential ensureCredentials caches and the result it returns
ensureCredentials(cached, st) ==
  IF cached # NoCred THEN [credentials |-> cached, success |-> TRUE]
  ELSE LET result == loadOAuthCredentials(st)
       IN IF ~result.success THEN [credentials |-> cached, success |-> FALSE]
          ELSE [credentials |-> result.credentials, success |-> TRUE]

\* request(endpoint, isRetry) up to the fetch: the client's cache and the
\* request r after it
request(cached, st, r, isRetry) ==
  LET credResult == ensureCredentials(cached, st)
  IN IF ~credResult.success
       THEN [credentials |-> credResult.credentials,
             req |-> [r EXCEPT !.pc = "done",
                               !.result = Failure("credentials_error", 0)]]
     ELSE [credentials |-> credResult.credentials,
           req |-> [r EXCEPT !.pc = "waiting", !.isRetry = isRetry,
                             !.usedToken = credResult.credentials.accessToken,
                             !.log = Append(r.log,
                                       [token |-> credResult.credentials.accessToken,
                                        status |-> -1, body |-> "none"])]]

\* transformUsageResponse / transformProfileResponse: whether they throw
transformUsageResponse(body) == IF body = "null" THEN "throws" ELSE "ok"
transformProfileResponse(body) == IF body \in {"null", "empty"} THEN "throws" ELSE "ok"

\* getUsage / getProfile after request() resolved with success
transformed(endpoint, body) ==
  LET t == IF endpoint = "usage" THEN transformUsageResponse(body)
           ELSE transformProfileResponse(body)
  IN IF t = "throws" THEN Rejected ELSE Success

Answered(r, status, body) ==
  [r EXCEPT !.log[Len(r.log)] = [token |-> r.usedToken, status |-> status, body |-> body]]

\* mutant: a 401/403 is never retried
requestResponseNoRetry(cached, st, endpoint, r, status, body) ==
  LET a == Answered(r, status, body)
      isAuth == status = 401 \/ status = 403
      refreshed == loadOAuthCredentials(st)
      reread == IF isAuth /\ ~r.isRetry
                  THEN [done |-> TRUE, success |-> refreshed.success,
                        token |-> refreshed.credentials.accessToken]
                ELSE r.reread
  IN IF ~ResponseOk(status)
       THEN [credentials |-> IF isAuth THEN NoCred ELSE cached,
             req |-> [a EXCEPT !.pc = "done", !.reread = reread,
                               !.result = createError(status)]]
     ELSE IF body = "notjson"
       THEN [credentials |-> cached,
             req |-> [a EXCEPT !.pc = "done", !.result = createError(0)]]
     ELSE [credentials |-> cached,
           req |-> [a EXCEPT !.pc = "done", !.result = transformed(endpoint, body)]]

\* mutant: the retry does not compare the re-read token with the rejected one
requestResponseAlwaysRetry(cached, st, endpoint, r, status, body) ==
  LET a == Answered(r, status, body)
      isAuth == status = 401 \/ status = 403
      refreshed == loadOAuthCredentials(st)
      reread == IF isAuth /\ ~r.isRetry
                  THEN [done |-> TRUE, success |-> refreshed.success,
                        token |-> refreshed.credentials.accessToken]
                ELSE r.reread
  IN IF ~ResponseOk(status)
       THEN IF isAuth /\ ~r.isRetry /\ refreshed.success
              THEN request(refreshed.credentials, st, [a EXCEPT !.reread = reread], TRUE)
            ELSE [credentials |-> IF isAuth THEN NoCred ELSE cached,
                  req |-> [a EXCEPT !.pc = "done", !.reread = reread,
                                    !.result = createError(status)]]
     ELSE IF body = "notjson"
       THEN [credentials |-> cached,
             req |-> [a EXCEPT !.pc = "done", !.result = createError(0)]]
     ELSE [credentials |-> cached,
           req |-> [a EXCEPT !.pc = "done", !.result = transformed(endpoint, body)]]

\* mutant: the retry is not marked as one
requestResponseRetryAgain(cached, st, endpoint, r, status, body) ==
  LET a == Answered(r, status, body)
      isAuth == status = 401 \/ status = 403
      dropped == IF isAuth THEN NoCred ELSE cached
      refreshed == loadOAuthCredentials(st)
      reread == IF isAuth /\ ~r.isRetry
                  THEN [done |-> TRUE, success |-> refreshed.success,
                        token |-> refreshed.credentials.accessToken]
                ELSE r.reread
  IN IF ~ResponseOk(status)
       THEN IF isAuth /\ ~r.isRetry /\ refreshed.success
                 /\ refreshed.credentials.accessToken # r.usedToken
              THEN request(refreshed.credentials, st, [a EXCEPT !.reread = reread], FALSE)
            ELSE [credentials |-> dropped,
                  req |-> [a EXCEPT !.pc = "done", !.reread = reread,
                                    !.result = createError(status)]]
     ELSE IF body = "notjson"
       THEN [credentials |-> cached,
             req |-> [a EXCEPT !.pc = "done", !.result = createError(0)]]
     ELSE [credentials |-> cached,
           req |-> [a EXCEPT !.pc = "done", !.result = transformed(endpoint, body)]]

\* request(endpoint, isRetry) from the fetch's response on
requestResponse(cached, st, endpoint, r, status, body) ==
  LET a == Answered(r, status, body)
      isAuth == status = 401 \/ status = 403
      dropped == IF isAuth THEN NoCred ELSE cached
      refreshed == loadOAuthCredentials(st)
      reread == IF isAuth /\ ~r.isRetry
                  THEN [done |-> TRUE, success |-> refreshed.success,
                        token |-> refreshed.credentials.accessToken]
                ELSE r.reread
  IN IF ~ResponseOk(status)
       THEN IF isAuth /\ ~r.isRetry /\ refreshed.success
                 /\ refreshed.credentials.accessToken # r.usedToken
              THEN request(refreshed.credentials, st, [a EXCEPT !.reread = reread], TRUE)
            ELSE [credentials |-> dropped,
                  req |-> [a EXCEPT !.pc = "done", !.reread = reread,
                                    !.result = createError(status)]]
     ELSE IF body = "notjson"
       THEN [credentials |-> cached,
             req |-> [a EXCEPT !.pc = "done", !.result = createError(0)]]
     ELSE [credentials |-> cached,
           req |-> [a EXCEPT !.pc = "done", !.result = transformed(endpoint, body)]]

\* the fetch rejects: DNS, timeout, connection reset
requestFailed(cached, r) ==
  [credentials |-> cached,
   req |-> [Answered(r, 0, "none") EXCEPT !.pc = "done", !.result = createError(0)]]

\* mutant: the profile request's failure is looked at before the usage one's
getRateLimitSummaryProfileFirst(usageResult, profileResult) ==
  IF usageResult.state = "rejected" \/ profileResult.state = "rejected" THEN Rejected
  ELSE IF usageResult.state = "pending" \/ profileResult.state = "pending" THEN Pending
  ELSE IF profileResult.state # "success" THEN profileResult
  ELSE IF usageResult.state # "success" THEN usageResult
  ELSE Success
\* mutant: a failure of the profile request is not reported
getRateLimitSummaryUsageOnly(usageResult, profileResult) == usageResult

\* what the running method has returned so far
getRateLimitSummary(usageResult, profileResult) ==
  IF usageResult.state = "rejected" \/ profileResult.state = "rejected" THEN Rejected
  ELSE IF usageResult.state = "pending" \/ profileResult.state = "pending" THEN Pending
  ELSE IF usageResult.state # "success" THEN usageResult
  ELSE IF profileResult.state # "success" THEN profileResult
  ELSE Success

CallResult ==
  CASE call = "getUsage" -> req["usage"].result
    [] call = "getProfile" -> req["profile"].result
    [] call = "getRateLimitSummary" ->
         getRateLimitSummary(req["usage"].result, req["profile"].result)
    [] OTHER -> Pending

\* the stores the client runs against: the test override with one of four
\* files, or one of the two tool files
ApiStores ==
  [testPath : {TRUE},
   testFile : {TestAbsent,
               TestFileOf("object", "", TokenA, "rt-0", JNum(2000000)),
               TestFileOf("object", "", TokenB, "rt-1", JUndef),
               TestFileOf("object", "", MockToken, Undef, JUndef)},
   keychain : {KeychainUnsupported}, claudeFile : {ClaudeAbsent},
   openCodeFile : {OpenAbsent}]
  \cup [testPath : {FALSE}, testFile : {TestAbsent}, keychain : {KeychainUnsupported},
        claudeFile : {ClaudeFileOf("object", "",
                                   ClaudeEntry(TokenA, "rt-0", JUndef, NoScopes, ""))},
        openCodeFile : {OpenAbsent}]
  \cup [testPath : {FALSE}, testFile : {TestAbsent}, keychain : {KeychainUnsupported},
        claudeFile : {ClaudeAbsent},
        openCodeFile : {OpenFileOf("object", "",
                                   OpenEntry("oauth", TokenB, "rt-1", JUndef, ""))}]

\* new ClaudeOAuthApi(credentials?): no credential, or the one that is passed
InitApi ==
  /\ MonitorConstructed
  /\ PaneLaunchedRight
  /\ refreshOp = NoRefreshOp
  /\ store \in ApiStores
  /\ changes = 0
  /\ credOp = NoOp
  /\ credentials \in {NoCred, Cred(TokenA, "rt-0", JUndef, NoScopes)}
  /\ call = "none"
  /\ req = [e \in Endpoints |-> IdleReq]

NoneInFlight == \A e \in Endpoints : req[e].pc # "waiting"

CallGetUsage ==
  LET q == request(credentials, store, IdleReq, FALSE)
  IN /\ NoneInFlight
     /\ call' = "getUsage"
     /\ credentials' = q.credentials
     /\ req' = Finish([e \in Endpoints |-> IF e = "usage" THEN q.req ELSE IdleReq], "usage")
     /\ UNCHANGED <<store, notApi>>

CallGetProfile ==
  LET q == request(credentials, store, IdleReq, FALSE)
  IN /\ NoneInFlight
     /\ call' = "getProfile"
     /\ credentials' = q.credentials
     /\ req' = Finish([e \in Endpoints |-> IF e = "profile" THEN q.req ELSE IdleReq],
                      "profile")
     /\ UNCHANGED <<store, notApi>>

\* Promise.all([this.getUsage(), this.getProfile()]): both requests run to
\* their fetch, the usage one first
CallGetRateLimitSummary ==
  LET u == request(credentials, store, IdleReq, FALSE)
      q == request(u.credentials, store, IdleReq, FALSE)
  IN /\ NoneInFlight
     /\ call' = "getRateLimitSummary"
     /\ credentials' = q.credentials
     /\ req' = Finish([Finish([e \in Endpoints |-> IF e = "usage" THEN u.req ELSE IdleReq],
                              "usage") EXCEPT !["profile"] = q.req], "profile")
     /\ UNCHANGED <<store, notApi>>

\* the server answers the GET of endpoint e
Respond ==
  \E e \in Endpoints, status \in Statuses, body \in Bodies :
    LET q == requestResponse(credentials, store, e, req[e], status,
                             IF ResponseOk(status) THEN body ELSE "none")
    IN /\ req[e].pc = "waiting"
       /\ ResponseOk(status) \/ body = "valid"
       /\ credentials' = q.credentials
       /\ req' = Finish([req EXCEPT ![e] = q.req], e)
       /\ UNCHANGED <<store, call, notApi>>

\* the GET of endpoint e fails at the transport
TransportFailure ==
  \E e \in Endpoints :
    LET q == requestFailed(credentials, req[e])
    IN /\ req[e].pc = "waiting"
       /\ credentials' = q.credentials
       /\ req' = Finish([req EXCEPT ![e] = q.req], e)
       /\ UNCHANGED <<store, call, notApi>>

\* another process rewrites the credential store
StoreRewritten ==
  /\ store' \in ApiStores
  /\ store' # store
  /\ UNCHANGED <<apiVars, notApi>>

NextApi ==
  \/ CallGetUsage
  \/ CallGetProfile
  \/ CallGetRateLimitSummary
  \/ Respond
  \/ TransportFailure
  \/ StoreRewritten

SpecApi == InitApi /\ [][NextApi]_vars

(***************************************************************************)
(* The usage API client: the claims.                                       *)
(***************************************************************************)
SingleCall == call \in {"getUsage", "getProfile"}
\* the request of the single call that is running
TheReq == IF call = "getProfile" THEN req["profile"] ELSE req["usage"]
FirstRejected(r) == Len(r.log) >= 1 /\ r.log[1].status \in {401, 403}

C2_NoRetryWithSameToken ==
  (SingleCall /\ FirstRejected(TheReq) /\ TheReq.reread.done /\ TheReq.reread.success
     /\ TheReq.reread.token = TheReq.log[1].token)
    => /\ Len(TheReq.log) = 1
       /\ TheReq.pc = "done"
       /\ CallResult = Failure("authentication_error", TheReq.log[1].status)

C2_Witness ==
  /\ call = "getUsage"
  /\ Len(req["usage"].log) = 1
  /\ req["usage"].log[1].status = 403
  /\ req["usage"].reread.success
  /\ req["usage"].reread.token = req["usage"].log[1].token
  /\ CallResult.type = "authentication_error"

\* C3: getUsage, getProfile and getRateLimitSummary never reject: whatever
\* the status, the body, the transport and the store, no request and no call
\* ends in a thrown exception.
C3_NeverRejects ==
  /\ \A e \in Endpoints : req[e].result.state # "rejected"
  /\ CallResult.state # "rejected"

\* C4: the error of a failed request follows from how the request ended:
\* last status 401/403 -> authentication_error, 429 -> rate_limit_error, any
\* other non-2xx -> api_error, each with that status; a transport failure ->
\* api_error with status 0; no credential loaded (no GET sent) ->
\* credentials_error.
C4_ErrorTypeByEnding ==
  \A e \in Endpoints :
    LET r == req[e]
        last == r.log[Len(r.log)].status
    IN /\ (r.pc = "done" /\ Len(r.log) = 0) => r.result = Failure("credentials_error", 0)
       /\ (r.pc = "done" /\ Len(r.log) > 0 /\ ~ResponseOk(last))
            => /\ r.result.state = "failure"
               /\ r.result.statusCode = last
               /\ r.result.type =
                    (CASE last \in {401, 403} -> "authentication_error"
                       [] last = 429 -> "rate_limit_error"
                       [] OTHER -> "api_error")

C4_Witness ==
  \E e \in Endpoints :
    /\ Len(req[e].log) = 2
    /\ req[e].log[2].status = 403
    /\ req[e].result = Failure("authentication_error", 403)

(***************************************************************************)
(* The Monitor Engine (createOAuthMonitor), as the CLI drives it:           *)
(* cli/index.ts main() calls fetch() and getState() for --once, and on(),   *)
(* start() and, from cleanup, stop() otherwise.  A fetch cycle asks the     *)
(* API client for getRateLimitSummary(); each endpoint is answered with a   *)
(* status (0: the transport failed) and a 200 carries the response's        *)
(* payload.                                                                 *)
(***************************************************************************)
MaxFetches == 3

MonStatuses == Statuses \cup {0}
Payloads == {"r1", "r2"}
Subscribers == {"render", "other"}

\* what getUsage() / getProfile() return once the endpoint has answered
endpointResult(status) == IF ResponseOk(status) THEN Success ELSE createError(status)

\* a fetch goes out
fetchStart(e) ==
  [e EXCEPT !.inFlight = @ \cup {e.fetches + 1}, !.fetches = @ + 1,
            !.tickSkipped = FALSE]
\* mutant: a fetch goes out although one is in flight
fetchOverlapping(e) == fetchStart(e)
\* fetch(), from a caller or from the timer: overlapping fetches are not
\* permitted, so with a fetch in flight none goes out
fetch(e) == IF e.inFlight # {} THEN e ELSE fetchStart(e)
\* start(): an immediate fetch(), then the recurring timer
start(e) == fetch([e EXCEPT !.started = TRUE, !.timer = TRUE])
\* stop(): cancels the timer
stop(e) == [e EXCEPT !.timer = FALSE, !.stopped = TRUE]

\* mutant: the result of a fetch is taken although the engine was stopped
settleAfterStop(st, e, id, result, payload) ==
  IF result.state = "success"
    THEN [st EXCEPT !.usage = payload, !.profile = payload, !.lastFetch = id,
                    !.lastError = Null]
  ELSE [st EXCEPT !.lastError = result.type]
\* the Monitor State after fetch id has settled with result: discarded if
\* the engine has been stopped; on success usage, profile and lastFetch are
\* replaced and lastError cleared, on failure lastError alone is set
settle(st, e, id, result, payload) ==
  IF e.stopped THEN st
  ELSE IF result.state = "success"
    THEN [st EXCEPT !.usage = payload, !.profile = payload, !.lastFetch = id,
                    !.lastError = Null]
  ELSE [st EXCEPT !.lastError = result.type]
\* the subscribers called when a fetch has settled
notify(e) == IF e.stopped THEN {} ELSE e.subscribers

\* what an operation records: the state and the fetches in flight before it
MonOpOf(op) ==
  [NoMonOp EXCEPT !.op = op, !.before = monitorState, !.inFlightBefore = engine.inFlight]

\* the credential store and the API client while the engine is looked at
EmptyStore ==
  [testPath |-> FALSE, testFile |-> TestAbsent, keychain |-> KeychainUnsupported,
   claudeFile |-> ClaudeAbsent, openCodeFile |-> OpenAbsent]
CredAndApiAtRest ==
  /\ store = EmptyStore
  /\ refreshOp = NoRefreshOp
  /\ changes = 0
  /\ credOp = NoOp
  /\ credentials = NoCred
  /\ call = "none"
  /\ req = [e \in Endpoints |-> IdleReq]

InitMonitor ==
  /\ MonitorConstructed
  /\ PaneLaunchedRight
  /\ CredAndApiAtRest

\* monitor.on(callback)
MonitorOn ==
  \E s \in Subscribers \ engine.subscribers :
    /\ engine' = [engine EXCEPT !.subscribers = @ \cup {s}]
    /\ monOp' = MonOpOf("on")
    /\ UNCHANGED <<monitorState, notMon>>

\* monitor.fetch(), on demand
MonitorFetch ==
  /\ engine.fetches < MaxFetches
  /\ engine' = fetch(engine)
  /\ monOp' = [MonOpOf("fetch") EXCEPT !.skipped = engine.inFlight # {}]
  /\ UNCHANGED <<monitorState, notMon>>

\* monitor.start(), once: the spec defines no start() after a stop()
MonitorStart ==
  /\ ~engine.started
  /\ ~engine.stopped
  /\ engine.fetches < MaxFetches
  /\ engine' = start(engine)
  /\ monitorState' = [monitorState EXCEPT !.isRunning = TRUE]
  /\ monOp' = [MonOpOf("start") EXCEPT !.skipped = engine.inFlight # {}]
  /\ UNCHANGED notMon

\* the recurring timer fires
TimerFires ==
  /\ engine.timer
  /\ engine.fetches < MaxFetches
  /\ engine' = [fetch(engine) EXCEPT !.tickSkipped = @ \/ engine.inFlight # {}]
  /\ monOp' = [MonOpOf("tick") EXCEPT !.skipped = engine.inFlight # {}]
  /\ UNCHANGED <<monitorState, notMon>>

\* a fetch in flight settles: the two endpoints have answered
FetchSettles ==
  \E id \in engine.inFlight, usageStatus \in MonStatuses, profileStatus \in MonStatuses,
     payload \in Payloads :
    LET result == getRateLimitSummary(endpointResult(usageStatus),
                                      endpointResult(profileStatus))
    IN /\ monitorState' = settle(monitorState, engine, id, result, payload)
       /\ engine' = [engine EXCEPT !.inFlight = @ \ {id}]
       /\ monOp' = [MonOpOf("settle") EXCEPT !.discarded = engine.stopped,
                                            !.usageStatus = usageStatus,
                                            !.profileStatus = profileStatus,
                                            !.payload = payload,
                                            !.notified = notify(engine)]
       /\ UNCHANGED notMon

\* monitor.stop(), from cleanup
MonitorStop ==
  /\ engine' = stop(engine)
  /\ monitorState' = [monitorState EXCEPT !.isRunning = FALSE]
  /\ monOp' = MonOpOf("stop")
  /\ UNCHANGED notMon

NextMonitor ==
  \/ MonitorOn
  \/ MonitorFetch
  \/ MonitorStart
  \/ TimerFires
  \/ FetchSettles
  \/ MonitorStop

SpecMonitor == InitMonitor /\ [][NextMonitor]_vars

\* a fetch cycle has ended and the engine has taken its result
Settled == monOp.op = "settle" /\ ~monOp.discarded
\* the upstream failed one of the two requests of the cycle
CycleFailed == monOp.usageStatus # 200 \/ monOp.profileStatus # 200

\* C12: when a fetch cycle fails (the upstream answers a request with 500,
\* say), lastError is non-null after it and usage and profile are what they
\* were before the fetch; they are never reset to null.
C12_FailedCycleKeepsData ==
  Settled /\ CycleFailed
    => /\ monitorState.lastError # Null
       /\ monitorState.usage = monOp.before.usage
       /\ monitorState.profile = monOp.before.profile

C12_Witness ==
  /\ Settled
  /\ monOp.usageStatus = 200
  /\ monOp.profileStatus = 500
  /\ monOp.before.usage = "r1"
  /\ monOp.before.lastError = Null
  /\ monOp.payload = "r2"
  /\ monitorState.usage = "r1"
  /\ monitorState.profile = "r1"
  /\ monitorState.lastError = "api_error"

\* C13: when a fetch cycle succeeds, lastError is null and usage and profile
\* are the new response, whatever the earlier cycles did: a success after
\* failed cycles leaves no stale lastError.
C13_SuccessClearsError ==
  Settled /\ ~CycleFailed
    => /\ monitorState.lastError = Null
       /\ monitorState.usage = monOp.payload
       /\ monitorState.profile = monOp.payload

C13_Witness ==
  /\ Settled
  /\ ~CycleFailed
  /\ monOp.before.lastError # Null
  /\ monOp.before.usage = "r1"
  /\ monOp.payload = "r2"
  /\ monitorState.lastError = Null
  /\ monitorState.usage = "r2"

\* C14: the engine never has two fetches in flight; a timer tick that finds
\* a fetch in flight starts none, and when a fetch settles no fetch goes out
\* for a tick that was skipped: the tick is dropped, not queued.
C14_NoOverlapTickDropped ==
  /\ Cardinality(engine.inFlight) <= 1
  /\ monOp.op = "tick" /\ monOp.inFlightBefore # {}
       => monOp.skipped /\ engine.inFlight = monOp.inFlightBefore
  /\ monOp.op = "settle" => engine.inFlight = {}

\* the timer fired while the fetch of start() was in flight; that fetch has
\* settled and none is in flight, the timer still armed
C14_Witness ==
  /\ monOp.op = "settle"
  /\ engine.tickSkipped
  /\ engine.timer
  /\ engine.inFlight = {}
  /\ engine.fetches = 1

\* C15: once stop() has been called no subscriber is notified; a fetch that
\* was in flight then may settle, but its result is discarded: the Monitor
\* State stays as it was and no subscriber is called.
C15_NoNotificationAfterStop ==
  /\ engine.stopped => monOp.notified = {}
  /\ engine.stopped /\ monOp.op = "settle"
       => monOp.discarded /\ monitorState = monOp.before
  /\ engine.stopped => ~engine.timer /\ ~monitorState.isRunning

\* a fetch in flight at stop() has settled with a 200 from both endpoints
C15_Witness ==
  /\ engine.stopped
  /\ engine.started
  /\ engine.subscribers = Subscribers
  /\ monOp.op = "settle"
  /\ monOp.discarded
  /\ ~CycleFailed
  /\ monOp.payload = "r2"
  /\ monitorState.usage = "r1"
  /\ monOp.notified = {}

(***************************************************************************)
(* cli/pane-manager.ts moveMonitorPane and its caller movePane in          *)
(* cli/index.ts.  Each tmux command is an operator on the session; a       *)
(* command can also fail for a reason outside the program (execSync        *)
(* throws): failed is the set of commands of a call that do.               *)
(***************************************************************************)
Directions == {"up", "down", "left", "right"}
PositionOf(direction) ==
  CASE direction = "up" -> "top"
    [] direction = "down" -> "bottom"
    [] direction = "left" -> "left"
    [] direction = "right" -> "right"

Commands == {"unset-hook", "break-pane", "join-pane", "select-pane", "set-hook", "recover"}

\* tmux set-hook -u -t s window-layout-changed
unsetHook(t) == [t EXCEPT !.hook = "none"]

\* mutant: the pane to break out is named by a pane index
breakSourceByIndex(t) == PaneAt(t, "0.1")
\* the pane that break-pane -s ${monitorPaneId} names: the monitor pane, by
\* its pane id
breakSource(t) == "monitor"

\* tmux break-pane -s pane -d -n _monitor_tmp: the pane goes to a window of
\* its own, which does not become the current one; a pane that is alone in
\* its window stays there and the window is renamed
breakPane(t, pane) ==
  IF t.tmp = pane THEN t
  ELSE [t EXCEPT !.panes = SelectSeq(t.panes, LAMBDA q : q # pane),
                 !.layout = "single",
                 !.tmp = pane,
                 !.active = SelectSeq(t.panes, LAMBDA q : q # pane)[1],
                 !.size = [n |-> 0, unit |-> "window"]]

\* mutant: the pane is joined as with -d, the focus stays where it was
joinPaneDetached(t, layout, before, size) ==
  [t EXCEPT !.panes = IF before THEN <<t.tmp, t.panes[1]>> ELSE <<t.panes[1], t.tmp>>,
            !.layout = layout, !.tmp = "none", !.size = size]
\* mutant: -b is ignored, the pane is joined after the target
joinPaneAfter(t, layout, before, size) ==
  [t EXCEPT !.panes = <<t.panes[1], t.tmp>>, !.layout = layout, !.tmp = "none",
            !.active = t.tmp, !.size = size]
\* tmux join-pane -h|-v [-b] -t s:0.0 -s s:_monitor_tmp [-l size]: the pane
\* of _monitor_tmp is put beside the pane at 0.0, before it with -b, and
\* becomes the active pane
joinPane(t, layout, before, size) ==
  [t EXCEPT !.panes = IF before THEN <<t.tmp, t.panes[1]>> ELSE <<t.panes[1], t.tmp>>,
            !.layout = layout, !.tmp = "none", !.active = t.tmp, !.size = size]

\* tmux select-pane -t s:0.i -T title
selectPane(t, index, title) ==
  IF PaneAt(t, index) = "none" THEN t
  ELSE [t EXCEPT !.title[PaneAt(t, index)] = title]

\* tmux set-hook -t s window-layout-changed "resize-pane -t s:0.i -y 3"
setHook(t, index) == [t EXCEPT !.hook = index]

\* mutant: no recovery is attempted
recoverNothing(t) == t
\* the recovery: join-pane -v -t s:0.0 -s s:_monitor_tmp
recover(t) == joinPane(t, "vertical", FALSE, [n |-> 0, unit |-> "half"])

\* mutant: the mode is reported as it was
newCompactModeAsBefore(direction, currentCompactMode) == currentCompactMode
\* the newCompactMode of a successful move
newCompactMode(direction, currentCompactMode) == direction \in {"up", "down"}

\* moveMonitorPane(tmuxSession, monitorPaneId, direction, currentCompactMode):
\* the session after the call and the MoveResult
moveMonitorPane(t, direction, currentCompactMode, failed) ==
  LET pl == Placement(PositionOf(direction))
      unhooked == IF "unset-hook" \in failed THEN t ELSE unsetHook(t)
      source == breakSource(unhooked)
      broken == breakPane(unhooked, source)
      joined == joinPane(broken, pl.layout, pl.before, pl.size)
      titled == selectPane(joined, pl.index, "monitor")
      hooked == IF pl.layout = "vertical" THEN setHook(titled, pl.index) ELSE titled
      tryThrew == \/ "join-pane" \in failed
                  \/ "select-pane" \in failed
                  \/ pl.layout = "vertical" /\ "set-hook" \in failed
      \* the session when the try block threw
      thrown == IF "join-pane" \in failed THEN broken
                ELSE IF "select-pane" \in failed THEN joined
                ELSE titled
      recovered == IF thrown.tmp # "none" /\ "recover" \notin failed THEN recover(thrown)
                   ELSE thrown
      unchanged == [success |-> FALSE, newCompactMode |-> currentCompactMode]
  IN IF "break-pane" \in failed \/ source = "none"
       THEN [tmux |-> unhooked, result |-> unchanged]
     ELSE IF tryThrew THEN [tmux |-> recovered, result |-> unchanged]
     ELSE [tmux |-> hooked,
           result |-> [success |-> TRUE,
                       newCompactMode |-> newCompactMode(direction, currentCompactMode)]]

\* failed holds only commands that the call runs: nothing runs after a
\* failed break-pane, the try block ends at its first failure, set-hook runs
\* for up and down only, the recovery runs when the try block has thrown
RunAndFailed(direction, failed) ==
  /\ "break-pane" \in failed => failed \subseteq {"unset-hook", "break-pane"}
  /\ "join-pane" \in failed => "select-pane" \notin failed /\ "set-hook" \notin failed
  /\ "select-pane" \in failed => "set-hook" \notin failed
  /\ "set-hook" \in failed => direction \in {"up", "down"}
  /\ "recover" \in failed =>
       failed \cap {"join-pane", "select-pane", "set-hook"} # {}

\* usage-monitor launch with each of the four positions; the monitor runs
\* with --compact at top and bottom, and as the configuration says at left
\* and right
InitPane ==
  /\ \E position \in Positions :
       /\ tmux = runLaunch(position)
       /\ compactMode \in IF position \in {"top", "bottom"} THEN {TRUE} ELSE BOOLEAN
  /\ paneOp = NoPaneOp
  /\ MonitorConstructed
  /\ CredAndApiAtRest

\* movePane(direction), on Shift+Arrow
MovePane ==
  \E direction \in Directions, failed \in SUBSET Commands :
    LET moved == moveMonitorPane(tmux, direction, compactMode, failed)
    IN /\ RunAndFailed(direction, failed)
       /\ tmux' = moved.tmux
       /\ compactMode' = IF moved.result.success THEN moved.result.newCompactMode
                         ELSE compactMode
       /\ paneOp' = [op |-> "move", direction |-> direction, failed |-> failed,
                     before |-> tmux, compactBefore |-> compactMode,
                     result |-> moved.result]
       /\ UNCHANGED notPane

\* Tab: the rendering mode is toggled
ToggleCompact ==
  /\ compactMode' = ~compactMode
  /\ paneOp' = [NoPaneOp EXCEPT !.op = "tab", !.before = tmux,
                                !.compactBefore = compactMode]
  /\ UNCHANGED <<tmux, notPane>>

NextPane ==
  \/ MovePane
  \/ ToggleCompact

SpecPane == InitPane /\ [][NextPane]_vars

\* where the monitor pane is in window 0, "none" if it is not beside the
\* main pane there
Position(t) ==
  IF Len(t.panes) # 2 \/ "monitor" \notin {t.panes[1], t.panes[2]} THEN "none"
  ELSE IF t.layout = "horizontal"
    THEN (IF t.panes[1] = "monitor" THEN "left" ELSE "right")
  ELSE (IF t.panes[1] = "monitor" THEN "top" ELSE "bottom")
\* the monitor panes of the session
MonitorPanes(t) ==
  Cardinality({i \in 1..Len(t.panes) : t.panes[i] = "monitor"})
    + (IF t.tmp = "monitor" THEN 1 ELSE 0)
Moved == paneOp.op = "move"

\* C16: a move whose destination join-pane fails leaves exactly one monitor
\* pane in the session, at the position (top, bottom, left, right) it had
\* before the move, for every starting position and every direction.
C16_FailedJoinRestoresPosition ==
  Moved /\ "join-pane" \in paneOp.failed /\ Position(paneOp.before) # "none"
    => /\ MonitorPanes(tmux) = 1
       /\ Position(tmux) = Position(paneOp.before)

\* the moves of a session that is as launched or as a successful move left it
FromPlaced == Moved /\ Position(paneOp.before) # "none"
\* the session holds the main pane alone in window 0 and the monitor pane in
\* the window _monitor_tmp
Stranded(t) == t.tmp = "monitor" /\ t.panes = <<"main">>

\* C17: after a failed move, one whose recovery join failed too included, a
\* later move can still put the monitor pane into the main window: a move
\* none of whose tmux commands fails succeeds and places the pane, from
\* every session a failed move leaves, the one with the pane in _monitor_tmp
\* included.
C17_LaterMoveSucceeds ==
  Moved /\ paneOp.failed = {}
    => /\ paneOp.result.success
       /\ Position(tmux) = PositionOf(paneOp.direction)
       /\ MonitorPanes(tmux) = 1

C17_Witness ==
  /\ Moved
  /\ paneOp.failed = {}
  /\ Stranded(paneOp.before)
  /\ paneOp.result.success
  /\ Position(tmux) = "left"

\* window 0 holds exactly two panes, one titled main and one titled monitor
TwoPanes(t) ==
  /\ Len(t.panes) = 2
  /\ {t.title[t.panes[1]], t.title[t.panes[2]]} = {"main", "monitor"}

\* C18 as stated: after any sequence of moves from any launch position the
\* main window holds exactly two panes, titled main and monitor.
C18_AlwaysTwoPanes == TwoPanes(tmux)

\* C18 amended: the main window holds exactly two panes, titled main and
\* monitor, unless the monitor pane is in _monitor_tmp; it gets there only
\* through a move whose join-pane and recovery join both failed, and stays
\* there until a move succeeds.
C18_TwoPanesUnlessStranded ==
  /\ tmux.tmp = "none" => TwoPanes(tmux)
  /\ tmux.tmp # "none" => Stranded(tmux) /\ (Moved => ~paneOp.result.success)
  /\ FromPlaced /\ Stranded(tmux) => {"join-pane", "recover"} \subseteq paneOp.failed

\* three moves in a row, the last one down from the right
C18_Witness ==
  /\ Moved
  /\ paneOp.result.success
  /\ paneOp.direction = "down"
  /\ Position(paneOp.before) = "right"
  /\ paneOp.before.hook = "none"
  /\ TwoPanes(tmux)
  /\ Position(tmux) = "bottom"

\* C19: a successful move reports newCompactMode true for up and down and
\* false for left and right, whatever currentCompactMode was, and the CLI
\* renders in that mode from then on.
C19_CompactModeFromDirection ==
  Moved /\ paneOp.result.success
    => /\ paneOp.result.newCompactMode = (paneOp.direction \in {"up", "down"})
       /\ compactMode = paneOp.result.newCompactMode

C19_Witness ==
  /\ Moved
  /\ paneOp.result.success
  /\ paneOp.direction = "left"
  /\ paneOp.compactBefore
  /\ ~compactMode

\* C20: after a successful move the monitor pane has pane index 0 for up and
\* left and 1 for down and right, and the window is split vertically for up
\* and down and horizontally for left and right, from every starting
\* position.
C20_IndexAndLayout ==
  Moved /\ paneOp.result.success
    => /\ PaneAt(tmux, IF paneOp.direction \in {"up", "left"} THEN "0.0" ELSE "0.1")
            = "monitor"
       /\ Len(tmux.panes) = 2
       /\ tmux.layout = IF paneOp.direction \in {"up", "down"} THEN "vertical"
                        ELSE "horizontal"

C20_Witness ==
  /\ Moved
  /\ paneOp.result.success
  /\ paneOp.direction = "up"
  /\ Position(paneOp.before) = "bottom"
  /\ PaneAt(tmux, "0.0") = "monitor"
  /\ tmux.layout = "vertical"

\* the window-layout-changed hook is there exactly when the monitor pane is
\* at the top or at the bottom, and then resizes the monitor pane's index
HookMatches(t) ==
  t.hook = (IF Position(t) \in {"top", "bottom"} THEN Placement(Position(t)).index
            ELSE "none")

\* C21: after launch and after every moveMonitorPane call, successful or
\* failed, the auto-resize hook is installed exactly when the monitor pane is
\* at the top or the bottom of the main window, and then targets the monitor
\* pane's index, never the main pane's.
C21_HookMatchesPosition ==
  Position(tmux) # "none" => HookMatches(tmux)

\* C22: after every successful move the monitor pane is the active pane of
\* the window and is titled monitor.
C22_FocusAndTitle ==
  Moved /\ paneOp.result.success
    => /\ tmux.active = "monitor"
       /\ tmux.title["monitor"] = "monitor"
       /\ tmux.title["main"] = "main"

\* the first move after launch, which left the focus on the main pane
C22_Witness ==
  /\ Moved
  /\ paneOp.result.success
  /\ paneOp.direction = "right"
  /\ paneOp.before.active = "main"
  /\ tmux.active = "monitor"
  /\ tmux.title[PaneAt(tmux, "0.1")] = "monitor"

\* C28: whenever moveMonitorPane returns success = false, whichever tmux
\* command failed, the monitor pane is in the main window at the position it
\* had before the move, so that the unchanged rendering mode still fits it.
C28_FailedMoveUnchanged ==
  FromPlaced /\ ~paneOp.result.success
    => /\ Position(tmux) = Position(paneOp.before)
       /\ paneOp.result.newCompactMode = paneOp.compactBefore

(***************************************************************************)
(* The usage API client: getRateLimitSummary and the cached credential.    *)
(***************************************************************************)
Summary == call = "getRateLimitSummary"
BothDone == \A e \in Endpoints : req[e].pc = "done"
Failed(r) == r.pc = "done" /\ r.result.state = "failure"
\* the endpoint whose request settled first
FirstFinished == CHOOSE e \in Endpoints : req[e].finished = 1

\* C26: getRateLimitSummary returns success only if both requests succeed;
\* if either fails it returns the error of the request that failed first in
\* time, so that when both fail the later failure is never the one reported.
C26_FirstFailureInTimeReported ==
  Summary /\ BothDone /\ CallResult.state # "rejected"
    => /\ CallResult = Success <=> \A e \in Endpoints : req[e].result = Success
       /\ (\A e \in Endpoints : Failed(req[e]))
            => CallResult = req[FirstFinished].result

\* C26 amended: success only if both requests succeed; otherwise the usage
\* request's error whenever the usage request failed, whichever of the two
\* failed first in time, and the profile request's error only when the usage
\* request succeeded.
C26_UsageFailureReported ==
  Summary /\ BothDone /\ CallResult.state # "rejected"
    => /\ CallResult = Success <=> \A e \in Endpoints : req[e].result = Success
       /\ Failed(req["usage"]) => CallResult = req["usage"].result
       /\ (~Failed(req["usage"]) /\ Failed(req["profile"]))
            => CallResult = req["profile"].result

\* both requests failed, the profile one first, with different errors
C26_Witness ==
  /\ Summary
  /\ BothDone
  /\ req["profile"].finished = 1
  /\ req["profile"].result = Failure("api_error", 500)
  /\ req["usage"].result = Failure("rate_limit_error", 429)
  /\ CallResult = Failure("rate_limit_error", 429)

\* the GETs of request r that were answered 401 or 403
Rejections(r) == {i \in 1..Len(r.log) : r.log[i].status \in {401, 403}}

\* C27: inside getRateLimitSummary the two branches share no mutable state:
\* the 401/403 handling of one branch never changes the credential that
\* remains cached after the other branch finishes.  A branch that got its
\* answer without any 401/403 leaves the credential it sent in the cache.
C27_BranchesIndependent ==
  Summary /\ BothDone
    => \A o \in Endpoints :
         Len(req[o].log) = 1 /\ req[o].result = Success
           => credentials.accessToken = req[o].usedToken

\* C29: after any getUsage, getProfile or getRateLimitSummary call that
\* returns authentication_error the client holds no cached credential.
C29_NoCacheAfterAuthError ==
  CallResult.state = "failure" /\ CallResult.type = "authentication_error"
    => credentials = NoCred

\* C30: every request of a call sends at most two GETs, so getUsage and
\* getProfile send at most two and getRateLimitSummary at most four; a
\* request whose second GET was answered has returned, whatever the status
\* and however the store was rewritten during the call.
C30_AtMostTwoGets ==
  \A e \in Endpoints :
    /\ Len(req[e].log) <= 2
    /\ Len(req[e].log) = 2 => req[e].isRetry
    /\ (Len(req[e].log) = 2 /\ req[e].log[2].status # -1) => req[e].pc = "done"
    /\ (SingleCall /\ TheReq # req[e]) => Len(req[e].log) = 0

\* a getRateLimitSummary call against a server that answers 401 every time:
\* four GETs, and the call has returned authentication_error
C30_Witness ==
  /\ Summary
  /\ BothDone
  /\ \A e \in Endpoints :
       Len(req[e].log) = 2 /\ \A i \in 1..2 : req[e].log[i].status = 401
  /\ CallResult = Failure("authentication_error", 401)

(***************************************************************************)
(* Expiry: every instant of the model lies in the first hour of 1970, in   *)
(* the past of every run of the program.                                   *)
(***************************************************************************)
\* the store with the expiry removed from every credential it holds
NoExpiry(st) ==
  [st EXCEPT !.testFile.expires_at = JUndef,
             !.keychain.entry.expiresAt = JUndef,
             !.claudeFile.entry.expiresAt = JUndef,
             !.openCodeFile.entry.expires = JUndef]

NetworkErrorPrefix == "Token refresh network error: "
RefreshFailedPrefix == "Token refresh failed: "
NoMessage == <<Undef>>
ThrowMessages == {<<"fetch failed">>, <<"The operation timed out">>}
RefreshStatuses == {200, 400, 401, 500}
RefreshBodies ==
  {[k |-> "grant", access_token |-> TokenA, refresh_token |-> "rt-1", expires_in |-> 3600,
    error_description |-> NoMessage, error |-> NoMessage],
   [k |-> "notjson", access_token |-> Undef, refresh_token |-> Undef, expires_in |-> 0,
    error_description |-> NoMessage, error |-> NoMessage],
   [k |-> "null", access_token |-> Undef, refresh_token |-> Undef, expires_in |-> 0,
    error_description |-> NoMessage, error |-> NoMessage]}
  \cup {[k |-> "error", access_token |-> Undef, refresh_token |-> Undef, expires_in |-> 0,
         error_description |-> d, error |-> e] :
          d \in {NoMessage, <<"The refresh token is expired or invalid">>,
                 <<NetworkErrorPrefix, "fetch failed">>},
          e \in {NoMessage, <<"invalid_grant">>}}
Thrown(m) == [kind |-> "throws", message |-> m, status |-> 0,
              body |-> CHOOSE b \in RefreshBodies : b.k = "null"]
Response(status, b) == [kind |-> "response", message |-> <<>>, status |-> status, body |-> b]
RefreshOutcomes ==
  {Thrown(m) : m \in ThrowMessages}
  \cup {Response(st, b) : st \in RefreshStatuses, b \in RefreshBodies}

RefreshSuccess(c) == [success |-> TRUE, credentials |-> c, error |-> <<>>]
RefreshError(message) == [success |-> FALSE, credentials |-> NoCred, error |-> message]

\* refreshOAuthToken(refreshToken) when the token endpoint does o at time now
refreshOAuthToken(refreshToken, o, now) ==
  LET default == <<RefreshFailedPrefix, ToString(o.status)>>
      message == IF o.body.k # "error" THEN default
                 ELSE IF o.body.error_description # NoMessage THEN o.body.error_description
                 ELSE IF o.body.error # NoMessage THEN o.body.error
                 ELSE default
  IN IF o.kind = "throws" THEN RefreshError(<<NetworkErrorPrefix>> \o o.message)
     ELSE IF ~ResponseOk(o.status) THEN RefreshError(message)
     ELSE IF o.body.k = "notjson"
       THEN RefreshError(<<NetworkErrorPrefix, "Unexpected token">>)
     ELSE IF o.body.k = "null"
       THEN RefreshError(<<NetworkErrorPrefix, "Cannot read properties of null">>)
     ELSE IF o.body.k = "error"
       THEN RefreshError(<<NetworkErrorPrefix, "Invalid time value">>)
     ELSE RefreshSuccess(Cred(o.body.access_token, o.body.refresh_token,
                              DateToISOString(JNum(now + o.body.expires_in * 1000)),
                              NoScopes))

(***************************************************************************)
(* Token refresh after a rejected poll.  The step that joins the pieces    *)
(* (the Monitor Engine's handling of authentication_error) follows the     *)
(* specification: exchange the refresh token, write the refreshed          *)
(* credential back to the source it was loaded from, poll again with it.   *)
(***************************************************************************)
\* what the token refresh leaves alone
notRefresh == <<changes, credOp, apiVars, monVars, paneVars>>

InitRefresh ==
  /\ MonitorConstructed
  /\ PaneLaunchedRight
  /\ store \in Stores
  /\ changes = 0
  /\ credOp = NoOp
  /\ credentials = NoCred
  /\ call = "none"
  /\ req = [e \in Endpoints |-> IdleReq]
  /\ refreshOp = NoRefreshOp

\* a poll whose GET is answered 401 while the store still holds the token
\* that was sent: the client returns authentication_error
PollRejected ==
  LET first == request(NoCred, store, IdleReq, FALSE)
      answered == requestResponse(first.credentials, store, "usage", first.req, 401, "none")
  IN /\ refreshOp.phase = "idle"
     /\ first.req.pc = "waiting"
     /\ answered.req.result = Failure("authentication_error", 401)
     /\ refreshOp' = [NoRefreshOp EXCEPT !.phase = "rejected",
                                         !.loaded = loadOAuthCredentials(store),
                                         !.sent = first.req.usedToken]
     /\ UNCHANGED <<store, notRefresh>>

\* the refresh token of the rejected credential is exchanged
Exchange ==
  \E o \in RefreshOutcomes, now \in NowValues :
    LET result == refreshOAuthToken(refreshOp.loaded.credentials.refreshToken, o, now)
    IN /\ refreshOp.phase = "rejected"
       /\ ~Falsy(refreshOp.loaded.credentials.refreshToken)
       /\ refreshOp' = [refreshOp EXCEPT !.phase = IF result.success THEN "exchanged"
                                                   ELSE "failed",
                                         !.outcome = o, !.now = now, !.result = result]
       /\ UNCHANGED <<store, notRefresh>>

\* writeBackCredentials(source, refreshed), source being the one the
\* rejected credential was loaded from
Persist ==
  \E io \in IoOutcomes :
    LET w == writeBackCredentials(store, refreshOp.loaded.source,
                                  refreshOp.result.credentials, io)
    IN /\ refreshOp.phase = "exchanged"
       /\ store' = w.store
       /\ refreshOp' = [refreshOp EXCEPT !.phase = "persisted", !.written = w.ok]
       /\ UNCHANGED notRefresh

\* the next poll: a client constructed with the refreshed credential sends
\* its GET
NextPoll ==
  LET next == request(refreshOp.result.credentials, store, IdleReq, FALSE)
  IN /\ refreshOp.phase = "persisted"
     /\ refreshOp' = [refreshOp EXCEPT !.phase = "polled", !.sent = next.req.usedToken]
     /\ UNCHANGED <<store, notRefresh>>

NextRefresh ==
  \/ PollRejected
  \/ Exchange
  \/ Persist
  \/ NextPoll

SpecRefresh == InitRefresh /\ [][NextRefresh]_vars

\* C23: when the server rejects the stored access token with 401 and the
\* token endpoint accepts the refresh token, the refreshed credential is in
\* the credential store it was loaded from before the next poll is issued:
\* at the next poll a load of the store returns the refreshed tokens.
C23_RefreshedPersistedBeforeNextPoll ==
  refreshOp.phase = "polled"
    => LET stored == loadOAuthCredentials(store)
       IN /\ refreshOp.sent = refreshOp.result.credentials.accessToken
          /\ stored.success
          /\ stored.source = refreshOp.loaded.source
          /\ stored.credentials.accessToken = refreshOp.result.credentials.accessToken
          /\ stored.credentials.refreshToken = refreshOp.result.credentials.refreshToken

\* the answers of the token endpoint that reject the refresh token
ServerRejections == {o \in RefreshOutcomes : o.kind = "response" /\ ~ResponseOk(o.status)}

\* C24: what refreshOAuthToken returns on a network failure differs from
\* what it returns for every non-2xx answer of the token endpoint, whatever
\* the error body, so that the caller can tell the two apart.
C24_NetworkErrorDistinct ==
  refreshOp.phase = "failed" /\ refreshOp.outcome.kind = "throws"
    => \A o \in ServerRejections, now \in NowValues :
         refreshOAuthToken(refreshOp.loaded.credentials.refreshToken, o, now)
           # refreshOp.result

====
